---- MODULE Spec2Model ----
(***************************************************************************)
(* Model of setup_supabase_db.py: a top-to-bottom script that reads        *)
(* supabase-config.js, extracts two credentials with regular expressions,  *)
(* validates them, prints them, builds a fixed list of SQL statements and  *)
(* sends each one through the execute_sql RPC of a Supabase client.        *)
(*                                                                         *)
(* Strings that the script inspects character by character (the config     *)
(* file, the credentials) are sequences of one-character strings.  SQL     *)
(* statements, which the script only strips and forwards, are sequences of *)
(* tokens: each token is either a run of whitespace or a piece of text     *)
(* that neither starts nor ends with whitespace; the statement is the      *)
(* concatenation of its tokens.                                            *)
(***************************************************************************)
EXTENDS Integers, Sequences, FiniteSets

VARIABLES
    pc,              \* position of the script
    config_file,     \* the file supabase-config.js on disk, as stored
    config_content,  \* line 14
    supabase_url,    \* line 18
    supabase_key,    \* line 22
    sql_scripts,     \* line 32
    i,               \* loop counter of line 107
    output,          \* lines printed on stdout, in order
    client_calls,    \* number of calls of create_client
    rpc_calls,       \* execute_sql calls made, in order
    exit_code,       \* status the process ends with
    fault            \* the exception the environment raised at top level

vars == << pc, config_file, config_content, supabase_url, supabase_key,
           sql_scripts, i, output, client_calls, rpc_calls, exit_code, fault >>

----------------------------------------------------------------------------
(* Bounds of the model *)

\* files of the full run have at most this many lines
MaxRunLines == 2

\* files given to the extractor alone have at most this many lines
MaxLines == 3

----------------------------------------------------------------------------
(* Python values *)

None == [isNone |-> TRUE, str |-> << >>]

Str(s) == [isNone |-> FALSE, str |-> s]

\* truth value of `not v` for v a string or None
Not(v) == v.isNone \/ v.str = << >>

Min(S) == CHOOSE x \in S : \A y \in S : x <= y

SetMin(a, b) == IF a <= b THEN a ELSE b

\* s[:n]
Slice(s, n) == SubSeq(s, 1, SetMin(n, Len(s)))

QUOTE == "'"

CR == "\r"

LF == "\n"

\* line 13: a file opened in text mode is read with every CR LF and every
\* lone CR turned into LF
UniversalNewlines(s) ==
    LET marked == [j \in 1..Len(s) |->
                     [c |-> s[j], afterCR |-> j > 1 /\ s[j - 1] = CR]]
        \* the LF of a CR LF goes, the CR stays
        kept   == SelectSeq(marked, LAMBDA m : ~(m.c = LF /\ m.afterCR))
    IN  IF s = << >> THEN << >>
        ELSE [j \in 1..Len(kept) |-> IF kept[j].c = CR THEN LF ELSE kept[j].c]

----------------------------------------------------------------------------
(* Credential extraction, lines 17-22 *)

SUPABASE_URL_RE ==
    << "c", "o", "n", "s", "t", " ", "S", "U", "P", "A", "B", "A", "S", "E",
       "_", "U", "R", "L", " ", "=", " ", "'" >>

SUPABASE_ANON_KEY_RE ==
    << "c", "o", "n", "s", "t", " ", "S", "U", "P", "A", "B", "A", "S", "E",
       "_", "A", "N", "O", "N", "_", "K", "E", "Y", " ", "=", " ", "'" >>

\* the literal part of the pattern occurs in s at position p
LiteralAt(lit, s, p) ==
    /\ p + Len(lit) - 1 <= Len(s)
    /\ \A k \in 1..Len(lit) : s[p + k - 1] = lit[k]

\* index of the first quote of s at or after position from, Len(s)+1 if none:
\* where the greedy class [^'] stops
ClassEnd(s, from) ==
    LET Q == { j \in from..Len(s) : s[j] = QUOTE }
    IN  IF Q = {} THEN Len(s) + 1 ELSE Min(Q)

\* [^']* in place of [^']+ : the group may be empty
GroupOk_Star(s, from, end) == end >= from

\* [^']+ : at least one character
GroupOk(s, from, end) == end > from

\* the whole pattern  lit([^']+)'  matches s starting at position p
MatchAt(lit, s, p) ==
    /\ LiteralAt(lit, s, p)
    /\ LET from == p + Len(lit)
           end  == ClassEnd(s, from)
       IN  GroupOk(s, from, end) /\ end <= Len(s)

\* the last match in place of the first
MatchStart_Last(P) == CHOOSE x \in P : \A y \in P : y <= x

\* position where re.search starts its match
MatchStart(P) == Min(P)

\* re.search(lit + "([^']+)'", s), then .group(1) if it matched else None
re_search(lit, s) ==
    LET P == { p \in 1..Len(s) : MatchAt(lit, s, p) }
    IN  IF P = {} THEN None
        ELSE LET from == MatchStart(P) + Len(lit)
             IN  Str(SubSeq(s, from, ClassEnd(s, from) - 1))

\* `and` in place of `or`
CredentialsMissing_And(url, key) == Not(url) /\ Not(key)

\* line 24
CredentialsMissing(url, key) == Not(url) \/ Not(key)

----------------------------------------------------------------------------
(* Printed lines.  msg is the fixed text of the print call, text the       *)
(* formatted value (empty when there is none), step the formatted number.  *)

Line(m) == [msg |-> m, text |-> << >>, step |-> 0]

LineText(m, t) == [msg |-> m, text |-> t, step |-> 0]

LineStep(m, n) == [msg |-> m, text |-> << >>, step |-> n]

\* line 29
PREVIEW_LEN == 50

DOTS == << ".", ".", "." >>

\* one character too many
KeyPreview_OffByOne(key) == Slice(key, PREVIEW_LEN + 1) \o DOTS

KeyPreview(key) == Slice(key, PREVIEW_LEN) \o DOTS

\* lines 28-29
CredentialLines(url, key) ==
    << LineText("Found Supabase URL: ", url),
       LineText("Found Supabase Key: ", KeyPreview(key)) >>

\* line 25
CredentialError ==
    << Line("ERROR: Could not extract Supabase credentials from supabase-config.js") >>

\* line 104
CreatingLines == << Line("Creating database tables...") >>

\* line 114
SuccessLine(n) == LineStep("Step : Success", n)

\* line 119
AlternativeLine(n) == LineStep("Step : Attempting alternative execution...", n)

\* lines 123-128
InitiatedLines ==
    << Line("Database setup initiated!"),
       Line("IMPORTANT:"),
       Line("Some SQL statements may be executed via the Supabase dashboard."),
       Line("Please check your Supabase console to verify:"),
       Line("  1. Go to 'Table Editor' and confirm tables are created"),
       Line("  2. Go to each table's 'Policies' tab to verify RLS is enabled") >>

\* lines 131-136
ImportFailedLines ==
    << Line("Supabase client import failed."),
       Line("Please run the SQL manually in Supabase dashboard:"),
       Line("1. Go to Supabase Dashboard"),
       Line("2. Click 'SQL Editor' -> 'New Query'"),
       Line("3. Copy and paste the SQL from SUPABASE_SETUP.md"),
       Line("4. Click 'Run'") >>

\* lines 139-141
SetupErrorLines(e) ==
    << LineText("Error during setup: ", e),
       Line("Fallback: Run SQL manually in Supabase dashboard"),
       Line("See SUPABASE_SETUP.md for the SQL scripts.") >>

\* lines 144-148
CompleteLines ==
    << Line("Setup complete! Your Supabase database is ready."),
       Line("Next steps:"),
       Line("1. Test with test-supabase.html"),
       Line("2. Update app.js with integration code from SUPABASE_INTEGRATION.md"),
       Line("3. Update LoginPageManager.init() to be async") >>

----------------------------------------------------------------------------
(* The SQL statements, lines 32-95 *)

\* src lines 34-42
Statement1 ==
    << "\n",
       "    ",
       "CREATE TABLE IF NOT EXISTS public.user_profiles (",
       "\n",
       "      ",
       "id UUID PRIMARY KEY REFERENCES auth.users(id) ON DELETE CASCADE,",
       "\n",
       "      ",
       "name TEXT NOT NULL,",
       "\n",
       "      ",
       "email TEXT NOT NULL UNIQUE,",
       "\n",
       "      ",
       "created_at TIMESTAMP DEFAULT CURRENT_TIMESTAMP,",
       "\n",
       "      ",
       "updated_at TIMESTAMP DEFAULT CURRENT_TIMESTAMP",
       "\n",
       "    ",
       ");",
       "\n",
       "    " >>

\* src lines 45-45
Statement2 ==
    << "ALTER TABLE public.user_profiles ENABLE ROW LEVEL SECURITY;" >>

\* src lines 48-53
Statement3 ==
    << "\n",
       "    ",
       "CREATE POLICY \"Users can read own profile\"",
       " ",
       "\n",
       "      ",
       "ON public.user_profiles",
       " ",
       "\n",
       "      ",
       "FOR SELECT",
       " ",
       "\n",
       "      ",
       "USING (auth.uid() = id);",
       "\n",
       "    " >>

\* src lines 56-61
Statement4 ==
    << "\n",
       "    ",
       "CREATE POLICY \"Users can update own profile\"",
       " ",
       "\n",
       "      ",
       "ON public.user_profiles",
       " ",
       "\n",
       "      ",
       "FOR UPDATE",
       " ",
       "\n",
       "      ",
       "USING (auth.uid() = id);",
       "\n",
       "    " >>

\* src lines 64-75
Statement5 ==
    << "\n",
       "    ",
       "CREATE TABLE IF NOT EXISTS public.wellness_checkins (",
       "\n",
       "      ",
       "id BIGSERIAL PRIMARY KEY,",
       "\n",
       "      ",
       "user_id UUID NOT NULL REFERENCES public.user_profiles(id) ON DELETE CASCADE,",
       "\n",
       "      ",
       "mood INTEGER CHECK (mood >= 1 AND mood <= 10),",
       "\n",
       "      ",
       "stress_level TEXT CHECK (stress_level IN ('Low', 'Moderate', 'High', 'Very High')),",
       "\n",
       "      ",
       "sleep_hours DECIMAL(4,2),",
       "\n",
       "      ",
       "journal_notes TEXT,",
       "\n",
       "      ",
       "activities TEXT[],",
       "\n",
       "      ",
       "created_at TIMESTAMP DEFAULT CURRENT_TIMESTAMP",
       "\n",
       "    ",
       ");",
       "\n",
       "    " >>

\* src lines 78-78
Statement6 ==
    << "ALTER TABLE public.wellness_checkins ENABLE ROW LEVEL SECURITY;" >>

\* src lines 81-86
Statement7 ==
    << "\n",
       "    ",
       "CREATE POLICY \"Users can read own checkins\"",
       " ",
       "\n",
       "      ",
       "ON public.wellness_checkins",
       " ",
       "\n",
       "      ",
       "FOR SELECT",
       " ",
       "\n",
       "      ",
       "USING (auth.uid() = user_id);",
       "\n",
       "    " >>

\* src lines 89-94
Statement8 ==
    << "\n",
       "    ",
       "CREATE POLICY \"Users can insert own checkins\"",
       " ",
       "\n",
       "      ",
       "ON public.wellness_checkins",
       " ",
       "\n",
       "      ",
       "FOR INSERT",
       " ",
       "\n",
       "      ",
       "WITH CHECK (auth.uid() = user_id);",
       "\n",
       "    " >>

\* a list of nine: the first policy twice
sql_scripts_nine ==
    << Statement1, Statement2, Statement3, Statement3, Statement4,
       Statement5, Statement6, Statement7, Statement8 >>

sql_scripts_literal ==
    << Statement1, Statement2, Statement3, Statement4,
       Statement5, Statement6, Statement7, Statement8 >>

WHITESPACE == { "\n", " ", "    ", "      " }

IsSpace(tok) == tok \in WHITESPACE

\* str.lstrip on tokens
RECURSIVE LStrip(_)
LStrip(s) ==
    IF s # << >> /\ IsSpace(Head(s)) THEN LStrip(Tail(s)) ELSE s

\* str.rstrip on tokens
RECURSIVE RStrip(_)
RStrip(s) ==
    IF s # << >> /\ IsSpace(s[Len(s)]) THEN RStrip(SubSeq(s, 1, Len(s) - 1)) ELSE s

\* line 108
Strip(s) == RStrip(LStrip(s))

----------------------------------------------------------------------------
(* The environment: the config files the script may find *)

URL_U == << "h", "t", "t", "p", "s", ":", "/", "/", "x", ".", "c", "o" >>

URL_V == << "h", "t", "t", "p", ":", "/", "/", "y" >>

KEY_ALPHABET == << "a", "b", "c", "d", "e", "f", "g" >>

\* a key of n characters
KeyOfLen(n) == [k \in 1..n |-> KEY_ALPHABET[((k - 1) % Len(KEY_ALPHABET)) + 1]]

UrlAssignment(v) == SUPABASE_URL_RE \o v \o << QUOTE, ";" >>

KeyAssignment(v) == SUPABASE_ANON_KEY_RE \o v \o << QUOTE, ";" >>

\* a URL stored with a CR LF inside
URL_CRLF == << "a", CR, LF, "b" >>

\* a key stored with a lone CR inside
KEY_CR == << "k", CR, "z" >>

\* lines of the config files of full runs, without their final LF
RunLines ==
    { UrlAssignment(URL_U),
      UrlAssignment(<< >>),
      \* a line that ends with CR LF
      << "/", "/", " ", "c", "f", "g", CR >>,
      KeyAssignment(KEY_CR),
      KeyAssignment(KeyOfLen(PREVIEW_LEN)),
      KeyAssignment(KeyOfLen(PREVIEW_LEN + 1)),
      KeyAssignment(<< >>) }

\* lines of the config files given to the extractor alone
ConfigLines ==
    RunLines \cup
    { UrlAssignment(URL_V),
      UrlAssignment(URL_CRLF),
      \* no closing quote
      SUPABASE_URL_RE \o URL_U \o << ";" >>,
      \* no blank before the equals sign
      << "c", "o", "n", "s", "t", " ", "S", "U", "P", "A", "B", "A", "S", "E",
         "_", "U", "R", "L", "=", " ", "'", "z", "'" >>,
      KeyAssignment(KeyOfLen(2)),
      KeyAssignment(KeyOfLen(PREVIEW_LEN + 2)) }

\* the texts of at most n lines, each taken from lines
RECURSIVE FilesOf(_, _)
FilesOf(lines, n) ==
    IF n = 0 THEN { << >> }
    ELSE LET shorter == FilesOf(lines, n - 1)
         IN  shorter \cup { f \o l \o << LF >> : f \in shorter, l \in lines }

NoFile == [exists |-> FALSE, content |-> << >>]

File(c) == [exists |-> TRUE, content |-> c]

\* messages of the exceptions the import and create_client raise
ErrorMessages == { << "I", "n", "v", "a", "l", "i", "d", " ", "U", "R", "L" >> }

----------------------------------------------------------------------------
(* The script *)

InitWith(files) ==
    /\ pc = "open"
    /\ config_file \in files
    /\ config_content = << >>
    /\ supabase_url = None
    /\ supabase_key = None
    /\ sql_scripts = << >>
    /\ i = 0
    /\ output = << >>
    /\ client_calls = 0
    /\ rpc_calls = << >>
    /\ exit_code = 0
    /\ fault = "none"

Init == InitWith({ NoFile } \cup { File(c) : c \in FilesOf(RunLines, MaxRunLines) })

InitExtract == InitWith({ NoFile } \cup { File(c) : c \in FilesOf(ConfigLines, MaxLines) })

\* exit(n), or the interpreter ending on an uncaught exception
Exit(n) ==
    /\ pc' = "exited"
    /\ exit_code' = n

\* lines 13-14
OpenConfig ==
    /\ pc = "open"
    /\ IF config_file.exists
       THEN /\ config_content' = UniversalNewlines(config_file.content)
            /\ pc' = "extract"
            /\ UNCHANGED << exit_code, fault >>
       ELSE /\ fault' = "open"
            /\ Exit(1)
            /\ UNCHANGED config_content
    /\ UNCHANGED << config_file, supabase_url, supabase_key, sql_scripts, i,
                    output, client_calls, rpc_calls >>

\* lines 17-22
Extract ==
    /\ pc = "extract"
    /\ supabase_url' = re_search(SUPABASE_URL_RE, config_content)
    /\ supabase_key' = re_search(SUPABASE_ANON_KEY_RE, config_content)
    /\ pc' = "validate"
    /\ UNCHANGED << config_file, config_content, sql_scripts, i, output,
                    client_calls, rpc_calls, exit_code, fault >>

\* lines 24-26
Validate ==
    /\ pc = "validate"
    /\ IF CredentialsMissing(supabase_url, supabase_key)
       THEN /\ output' = output \o CredentialError
            /\ Exit(1)
       ELSE /\ pc' = "print"
            /\ UNCHANGED << output, exit_code >>
    /\ UNCHANGED << config_file, config_content, supabase_url, supabase_key,
                    sql_scripts, i, client_calls, rpc_calls, fault >>

\* lines 28-29
PrintCredentials ==
    /\ pc = "print"
    /\ output' = output \o CredentialLines(supabase_url.str, supabase_key.str)
    /\ pc' = "build"
    /\ UNCHANGED << config_file, config_content, supabase_url, supabase_key,
                    sql_scripts, i, client_calls, rpc_calls, exit_code, fault >>

\* lines 32-95
BuildScripts ==
    /\ pc = "build"
    /\ sql_scripts' = sql_scripts_literal
    /\ pc' = "import"
    /\ UNCHANGED << config_file, config_content, supabase_url, supabase_key,
                    i, output, client_calls, rpc_calls, exit_code, fault >>

\* the handler without its exit(1): the script goes on to line 144
ImportErrorHandler_NoExit ==
    /\ output' = output \o ImportFailedLines
    /\ pc' = "complete"
    /\ UNCHANGED exit_code

\* lines 130-137
ImportErrorHandler ==
    /\ output' = output \o ImportFailedLines
    /\ Exit(1)

\* the handler without its exit(1): the script goes on to line 144
ExceptionHandler_NoExit(e) ==
    /\ output' = output \o SetupErrorLines(e)
    /\ pc' = "complete"
    /\ UNCHANGED exit_code

\* lines 138-142
ExceptionHandler(e) ==
    /\ output' = output \o SetupErrorLines(e)
    /\ Exit(1)

\* exceptions that are no subclass of Exception, each with the status the
\* process ends with when nothing catches it: SystemExit(n) gives n, a
\* KeyboardInterrupt ends the process by SIGINT (status -2), any other one
\* gives a traceback and 1
BaseExceptions ==
    { [type |-> "SystemExit", status |-> 0],
      [type |-> "SystemExit", status |-> 3],
      [type |-> "KeyboardInterrupt", status |-> -2],
      [type |-> "GeneratorExit", status |-> 1] }

\* an exception that neither `except ImportError` (line 130) nor
\* `except Exception` (lines 115, 138) catches: the script ends there
Uncaught(e) == Exit(e.status)

\* line 99, inside the try of line 98
ImportClient ==
    /\ pc = "import"
    /\ \/ /\ pc' = "create"
          /\ UNCHANGED << output, exit_code, fault >>
       \/ /\ fault' = "import"
          /\ ImportErrorHandler
       \/ /\ fault' = "import_exception"
          /\ \E e \in ErrorMessages : ExceptionHandler(e)
       \/ /\ fault' = "import_base_exception"
          /\ \E e \in BaseExceptions : Uncaught(e)
          /\ UNCHANGED output
    /\ UNCHANGED << config_file, config_content, supabase_url, supabase_key,
                    sql_scripts, i, client_calls, rpc_calls >>

\* lines 102-104
CreateClient ==
    /\ pc = "create"
    /\ client_calls' = client_calls + 1
    /\ \/ /\ output' = output \o CreatingLines
          /\ i' = 1
          /\ pc' = "loop"
          /\ UNCHANGED << exit_code, fault >>
       \/ /\ fault' = "create_import_error"
          /\ ImportErrorHandler
          /\ UNCHANGED i
       \/ /\ fault' = "create_exception"
          /\ \E e \in ErrorMessages : ExceptionHandler(e)
          /\ UNCHANGED i
       \/ /\ fault' = "create_base_exception"
          /\ \E e \in BaseExceptions : Uncaught(e)
          /\ UNCHANGED << output, i >>
    /\ UNCHANGED << config_file, config_content, supabase_url, supabase_key,
                    sql_scripts, rpc_calls >>

\* the record of one execute_sql call; outcome is "returned", "Exception"
\* (the call raised a subclass of Exception) or "BaseException" (it raised
\* something else)
Call(n, sql, outcome) ==
    [step |-> n, sql |-> sql, ok |-> outcome = "returned", outcome |-> outcome]

\* the success marker whatever the outcome
StatusLine_AlwaysSuccess(n, ok) == SuccessLine(n)

\* lines 112-121: the status line of an attempt that returned, or raised an
\* Exception
StatusLine(n, ok) == IF ok THEN SuccessLine(n) ELSE AlternativeLine(n)

\* a failure leaves the loop
NextIndex_Break(n, ok) == IF ok THEN n + 1 ELSE Len(sql_scripts) + 1

\* line 107: the counter after an iteration
NextIndex(n, ok) == n + 1

\* the inner try without its except: a failing call reaches line 138
ExecuteStatement_Escalate ==
    /\ pc = "loop"
    /\ i <= Len(sql_scripts)
    /\ \/ /\ rpc_calls' = Append(rpc_calls, Call(i, Strip(sql_scripts[i]), "returned"))
          /\ output' = Append(output, SuccessLine(i))
          /\ i' = i + 1
          /\ UNCHANGED << pc, exit_code, fault >>
       \/ /\ rpc_calls' = Append(rpc_calls, Call(i, Strip(sql_scripts[i]), "Exception"))
          /\ \E e \in ErrorMessages : ExceptionHandler(e)
          /\ UNCHANGED << i, fault >>
       \/ /\ rpc_calls' = Append(rpc_calls, Call(i, Strip(sql_scripts[i]), "BaseException"))
          /\ fault' = "call_base_exception"
          /\ \E e \in BaseExceptions : Uncaught(e)
          /\ UNCHANGED << output, i >>
    /\ UNCHANGED << config_file, config_content, supabase_url, supabase_key,
                    sql_scripts, client_calls >>

\* lines 107-121, one iteration.  stdout is taken to accept every print, so
\* the print of line 119 does not raise and lines 120-121 have nothing to
\* swallow.
ExecuteStatement ==
    /\ pc = "loop"
    /\ i <= Len(sql_scripts)
    /\ LET sql == Strip(sql_scripts[i])
       IN  IF sql = << >>
           THEN /\ i' = i + 1
                /\ UNCHANGED << pc, output, rpc_calls, exit_code, fault >>
           ELSE \/ \E ok \in BOOLEAN :
                     /\ rpc_calls' = Append(rpc_calls,
                                            Call(i, sql, IF ok THEN "returned" ELSE "Exception"))
                     /\ output' = Append(output, StatusLine(i, ok))
                     /\ i' = NextIndex(i, ok)
                     /\ UNCHANGED << pc, exit_code, fault >>
                \/ /\ rpc_calls' = Append(rpc_calls, Call(i, sql, "BaseException"))
                   /\ fault' = "call_base_exception"
                   /\ \E e \in BaseExceptions : Uncaught(e)
                   /\ UNCHANGED << output, i >>
    /\ UNCHANGED << config_file, config_content, supabase_url, supabase_key,
                    sql_scripts, client_calls >>

\* lines 123-128
LoopEnd ==
    /\ pc = "loop"
    /\ i > Len(sql_scripts)
    /\ output' = output \o InitiatedLines
    /\ pc' = "complete"
    /\ UNCHANGED << config_file, config_content, supabase_url, supabase_key,
                    sql_scripts, i, client_calls, rpc_calls, exit_code, fault >>

\* lines 144-148, then the end of the script
Complete ==
    /\ pc = "complete"
    /\ output' = output \o CompleteLines
    /\ Exit(exit_code)
    /\ UNCHANGED << config_file, config_content, supabase_url, supabase_key,
                    sql_scripts, i, client_calls, rpc_calls, fault >>

Next ==
    \/ OpenConfig
    \/ Extract
    \/ Validate
    \/ PrintCredentials
    \/ BuildScripts
    \/ ImportClient
    \/ CreateClient
    \/ ExecuteStatement
    \/ LoopEnd
    \/ Complete

Spec == Init /\ [][Next]_vars

\* the script up to the credential printout
NextExtract ==
    \/ OpenConfig
    \/ Extract
    \/ Validate
    \/ PrintCredentials

SpecExtract == InitExtract /\ [][NextExtract]_vars

\* the script keeps running until it ends: it is sequential and nothing suspends it
FairSpec == Spec /\ WF_vars(Next)

----------------------------------------------------------------------------
(* Vocabulary of the properties *)

\* s holds, from position p, the text  lit <value> '  with a value that is
\* not empty and has no quote, the closing quote being at position e
AssignmentAt(lit, s, p, e) ==
    /\ e > p + Len(lit)
    /\ e <= Len(s)
    /\ s[e] = QUOTE
    /\ LiteralAt(lit, s, p)
    /\ \A j \in (p + Len(lit))..(e - 1) : s[j] # QUOTE

\* the value of that assignment
ValueAt(lit, s, p, e) == SubSeq(s, p + Len(lit), e - 1)

\* s has, from position p, an assignment of a value to the identifier
AssignsAt(lit, s, p) ==
    /\ LiteralAt(lit, s, p)
    /\ \E e \in (p + Len(lit) + 1)..Len(s) : AssignmentAt(lit, s, p, e)

\* the positions of s that hold the first character of the identifier's text
Candidates(lit, s) == { p \in 1..Len(s) : s[p] = lit[1] }

\* s has an assignment of a value to the identifier
HasAssignment(lit, s) == \E p \in Candidates(lit, s) : AssignsAt(lit, s, p)

\* the identifier is assigned in s, and only ever the empty value
OnlyEmptyAssignments(lit, s) ==
    /\ \E p \in Candidates(lit, s) : LiteralAt(lit, s, p)
    /\ \A p \in Candidates(lit, s) :
          LiteralAt(lit, s, p)
          => (p + Len(lit) <= Len(s) /\ s[p + Len(lit)] = QUOTE)

\* sub occurs in s
Contains(s, sub) ==
    \E p \in 1..(Len(s) - Len(sub) + 1) : SubSeq(s, p, p + Len(sub) - 1) = sub

\* the file was read and lines 17-22 have run
Extracted == config_file.exists /\ pc \notin { "open", "extract" }

\* the file was read and line 24 has run
Validated == Extracted /\ pc # "validate"

\* create_client returned a client
Constructed == i >= 1

\* the run is over
Exited == pc = "exited"

\* the banner of line 144 is on stdout
BannerPrinted == \E k \in 1..Len(output) : output[k] = CompleteLines[1]

\* the last n lines of stdout
LastLines(n) == SubSeq(output, Len(output) - n + 1, Len(output))

----------------------------------------------------------------------------
(* C1 *)

\* C1: whenever the config file lacks the SUPABASE_URL assignment, the
\* SUPABASE_ANON_KEY assignment or both, the run prints the credential error
\* and nothing else, ends with status 1, never calls create_client and makes
\* no execute_sql call.
C1_MissingCredentialExits ==
    (/\ Validated
     /\ \/ ~HasAssignment(SUPABASE_URL_RE, config_file.content)
        \/ ~HasAssignment(SUPABASE_ANON_KEY_RE, config_file.content))
    => /\ Exited
       /\ exit_code = 1
       /\ output = << Line("ERROR: Could not extract Supabase credentials from supabase-config.js") >>
       /\ client_calls = 0
       /\ rpc_calls = << >>

\* a run that found the URL but no key, and has ended
C1_Witness ==
    /\ Validated
    /\ HasAssignment(SUPABASE_URL_RE, config_file.content)
    /\ ~HasAssignment(SUPABASE_ANON_KEY_RE, config_file.content)
    /\ Exited
    /\ exit_code = 1

----------------------------------------------------------------------------
(* C2 *)

\* C2: when the import of the client library fails, the run prints the
\* manual instructions, ends with status 1, has made no execute_sql call and
\* no create_client call, and the completion banner is not printed.
C2_ImportFailureExits ==
    fault = "import"
    => /\ Exited
       /\ exit_code = 1
       /\ Len(output) >= 6
       /\ LastLines(6)[1] = Line("Supabase client import failed.")
       /\ LastLines(6)[2] = Line("Please run the SQL manually in Supabase dashboard:")
       /\ LastLines(6)[5] = Line("3. Copy and paste the SQL from SUPABASE_SETUP.md")
       /\ rpc_calls = << >>
       /\ client_calls = 0
       /\ ~BannerPrinted

\* a run whose import failed after both credentials were printed
C2_Witness ==
    /\ fault = "import"
    /\ Exited
    /\ ~supabase_url.isNone
    /\ ~supabase_key.isNone
    /\ Len(output) = 8

----------------------------------------------------------------------------
(* C3 *)

\* C3 as stated: when create_client raises any exception other than
\* ImportError, the run ends at once with status 1 and no execute_sql call
\* was made.
C3_Original_AnyExceptionExitsOne ==
    fault \in { "create_exception", "create_base_exception" }
    => /\ Exited
       /\ exit_code = 1
       /\ rpc_calls = << >>

\* C3, amended: when create_client raises an exception other than
\* ImportError, the run ends at once and no execute_sql call was made; the
\* status is 1 when the exception is a subclass of Exception.  An exception
\* that is not (SystemExit, KeyboardInterrupt, ...) is caught by no handler:
\* nothing more is printed and the status is that exception's own.
C3_ClientFailureExits ==
    /\ fault \in { "create_exception", "create_base_exception" }
         => /\ Exited
            /\ client_calls = 1
            /\ rpc_calls = << >>
            /\ ~BannerPrinted
    /\ fault = "create_exception"
         => /\ exit_code = 1
            /\ Len(output) = 5
            /\ output[3].msg = "Error during setup: "
    /\ fault = "create_base_exception"
         => /\ Len(output) = 2
            /\ \E e \in BaseExceptions : exit_code = e.status

\* a run in which create_client raised a subclass of Exception
C3_Witness ==
    /\ fault = "create_exception"
    /\ Exited
    /\ exit_code = 1
    /\ client_calls = 1
    /\ output[Len(output)] = Line("See SUPABASE_SETUP.md for the SQL scripts.")

----------------------------------------------------------------------------
(* C4 *)

\* C4 as stated: once the client is constructed, whatever the execute_sql
\* calls do, the run ends with the completion banner printed and status 0.
C4_Original_AlwaysBannerAndZero ==
    (Constructed /\ Exited) => (exit_code = 0 /\ BannerPrinted)

\* C4, amended: once the client is constructed, and as long as every
\* execute_sql call returns or raises a subclass of Exception, the exit
\* status stays 0 and the run reaches the end of the script, where the
\* completion banner is printed and the status is 0, also when every call
\* raises.  (A call that raises something that is no Exception ends the run
\* on the spot.)
C4_StatementFailuresNeverFatal ==
    /\ []((Constructed /\ fault = "none") => exit_code = 0)
    /\ Constructed
         ~> (/\ Exited
             /\ fault = "none"
                  => /\ exit_code = 0
                     /\ Len(output) >= 5
                     /\ LastLines(5) = CompleteLines)

\* a finished run in which every execute_sql call raised an Exception
C4_Witness ==
    /\ Constructed
    /\ Exited
    /\ fault = "none"
    /\ exit_code = 0
    /\ BannerPrinted
    /\ Len(rpc_calls) = Len(sql_scripts)
    /\ \A k \in 1..Len(rpc_calls) : rpc_calls[k].outcome = "Exception"

----------------------------------------------------------------------------
(* C5 *)

\* line 32 has run
Built ==
    \/ pc \in { "import", "create", "loop", "complete" }
    \/ Exited /\ fault \in { "import", "import_exception", "import_base_exception",
                             "create_import_error", "create_exception",
                             "create_base_exception" }
    \/ Exited /\ Constructed

\* what a statement does, read off its first line
StatementKind(sql) ==
    LET first == Head(Strip(sql))
    IN  CASE first = "CREATE TABLE IF NOT EXISTS public.user_profiles (" -> "table profiles"
          [] first = "ALTER TABLE public.user_profiles ENABLE ROW LEVEL SECURITY;" -> "security profiles"
          [] first = "CREATE POLICY \"Users can read own profile\"" -> "policy profiles select"
          [] first = "CREATE POLICY \"Users can update own profile\"" -> "policy profiles update"
          [] first = "CREATE TABLE IF NOT EXISTS public.wellness_checkins (" -> "table checkins"
          [] first = "ALTER TABLE public.wellness_checkins ENABLE ROW LEVEL SECURITY;" -> "security checkins"
          [] first = "CREATE POLICY \"Users can read own checkins\"" -> "policy checkins select"
          [] first = "CREATE POLICY \"Users can insert own checkins\"" -> "policy checkins insert"
          [] OTHER -> "other"

\* C5 as stated: the list of SQL statements has exactly 9 entries.
C5_Original_NineStatements == Built => Len(sql_scripts) = 9

\* C5, amended: the list of SQL statements has exactly 8 entries, in the
\* order table, security, two policies for the profiles and then the same
\* for the check-ins, whatever the credentials are.
C5_EightStatementsFixedOrder ==
    Built
    => /\ Len(sql_scripts) = 8
       /\ [k \in 1..8 |-> StatementKind(sql_scripts[k])]
            = << "table profiles", "security profiles",
                 "policy profiles select", "policy profiles update",
                 "table checkins", "security checkins",
                 "policy checkins select", "policy checkins insert" >>

\* the list is built, in a run with a key of 51 characters
C5_Witness ==
    /\ Built
    /\ pc = "import"
    /\ Len(supabase_key.str) = 51
    /\ supabase_url.str = URL_U

----------------------------------------------------------------------------
(* C6 *)

\* C6 as stated: in a run that constructed the client every statement is
\* attempted once, in list order, and no failure of a call prevents the
\* attempt of the next statement: at statement i the calls made are those of
\* statements 1..i-1, after the loop those of all the statements.
C6_Original_NoFailureStopsTheLoop ==
    Constructed
    => /\ Len(rpc_calls) = (IF pc = "loop" THEN i - 1 ELSE Len(sql_scripts))
       /\ \A k \in 1..Len(rpc_calls) : rpc_calls[k].step = k

\* C6, amended: in a run that constructed the client the statements are
\* attempted in list order, never twice and never skipping one, each with
\* the stripped text of its statement.  A call that fails with a subclass of
\* Exception is swallowed and the next statement is attempted, so that all
\* the statements are attempted when no call raises anything else; a call
\* that raises something that is no Exception is the last one of the run.
C6_EachStatementOnceInOrder ==
    Constructed
    => /\ Len(rpc_calls) = (IF pc = "loop" THEN i - 1
                            ELSE IF fault = "call_base_exception" THEN i
                            ELSE Len(sql_scripts))
       /\ \A k \in 1..Len(rpc_calls) :
             /\ rpc_calls[k].step = k
             /\ rpc_calls[k].sql = Strip(sql_scripts[k])
             /\ rpc_calls[k].sql # << >>
             /\ ~IsSpace(Head(rpc_calls[k].sql))
             /\ rpc_calls[k].outcome = "BaseException"
                  => (k = Len(rpc_calls) /\ Exited /\ fault = "call_base_exception")

\* statement 4 was attempted right after statement 3 failed
C6_Witness ==
    /\ Constructed
    /\ Len(rpc_calls) >= 4
    /\ rpc_calls[3].outcome = "Exception"
    /\ rpc_calls[4].step = 4
    /\ rpc_calls[4].sql[1] = "CREATE POLICY \"Users can update own profile\""

----------------------------------------------------------------------------
(* C9 *)

\* the status lines of stdout, in order
StatusLines == SelectSeq(output, LAMBDA l : l.step # 0 \/ l.msg = "Step : Success"
                                            \/ l.msg = "Step : Attempting alternative execution...")

\* C9 as stated: each attempted statement has exactly one status line,
\* which carries its position counted from 1: the success marker if and only
\* if the call returned, the alternative-execution diagnostic if and only if
\* it raised.
C9_Original_OneLinePerAttempt ==
    Constructed
    => /\ Len(StatusLines) = Len(rpc_calls)
       /\ \A k \in 1..Len(rpc_calls) :
             /\ StatusLines[k].step = k
             /\ rpc_calls[k].ok <=> StatusLines[k].msg = "Step : Success"
             /\ ~rpc_calls[k].ok
                  <=> StatusLines[k].msg = "Step : Attempting alternative execution..."

\* the calls that returned or raised a subclass of Exception
Handled == SelectSeq(rpc_calls, LAMBDA c : c.outcome # "BaseException")

\* C9, amended: each attempted statement whose call returned or raised a
\* subclass of Exception has exactly one status line, which carries its
\* position counted from 1: the success marker if and only if the call
\* returned, the alternative-execution diagnostic if and only if it raised;
\* no statement is called a second time.  A call that raises something that
\* is no Exception has no status line (the run ends with it).
C9_OneStatusLinePerStatement ==
    Constructed
    => /\ Len(StatusLines) = Len(Handled)
       /\ \A k \in 1..Len(rpc_calls) : rpc_calls[k].step = k
       /\ \A k \in 1..Len(Handled) :
             /\ Handled[k].step = k
             /\ StatusLines[k].step = k
             /\ Handled[k].outcome = "returned"
                  <=> StatusLines[k].msg = "Step : Success"
             /\ Handled[k].outcome = "Exception"
                  <=> StatusLines[k].msg = "Step : Attempting alternative execution..."

\* a run with a failed statement followed by a successful one
C9_Witness ==
    /\ Constructed
    /\ Len(rpc_calls) >= 2
    /\ rpc_calls[1].outcome = "Exception"
    /\ rpc_calls[2].outcome = "returned"
    /\ StatusLines[1] = LineStep("Step : Attempting alternative execution...", 1)
    /\ StatusLines[2] = LineStep("Step : Success", 2)

----------------------------------------------------------------------------
(* C7 *)

\* the assignment at p is the first one of s for the identifier
FirstAssignment(lit, s, p) ==
    \A p2 \in Candidates(lit, s) : p2 < p => ~AssignsAt(lit, s, p2)

\* the extractor returned the value of every assignment of the identifier
ReturnsEvery(lit, s, result) ==
    \A p \in Candidates(lit, s) :
        LiteralAt(lit, s, p)
        => \A e \in (p + Len(lit) + 1)..Len(s) :
              AssignmentAt(lit, s, p, e) => result = Str(ValueAt(lit, s, p, e))

\* the extractor returned the value of the first assignment of the
\* identifier as a text-mode read gives it, which is the stored value
\* itself when that holds no CR
ReturnsFirst(lit, s, result) ==
    \A p \in Candidates(lit, s) :
        LiteralAt(lit, s, p)
        => \A e \in (p + Len(lit) + 1)..Len(s) :
              (AssignmentAt(lit, s, p, e) /\ FirstAssignment(lit, s, p))
              => LET stored == ValueAt(lit, s, p, e)
                 IN  /\ result = Str(UniversalNewlines(stored))
                     /\ (\A j \in 1..Len(stored) : stored[j] # CR)
                          => result = Str(stored)
                     /\ \A j \in 1..Len(result.str) : result.str[j] # CR

\* the stored file has both assignments
BothAssigned ==
    /\ HasAssignment(SUPABASE_URL_RE, config_file.content)
    /\ HasAssignment(SUPABASE_ANON_KEY_RE, config_file.content)

\* C7 as stated: in a file that has both assignments, the value between the
\* quotes of an assignment is what the extractor returns, unchanged, and
\* nothing else in the file has an effect on it.
C7_Original_OtherContentIgnored ==
    (Extracted /\ BothAssigned)
    => /\ ReturnsEvery(SUPABASE_URL_RE, config_file.content, supabase_url)
       /\ ReturnsEvery(SUPABASE_ANON_KEY_RE, config_file.content, supabase_key)

\* C7, amended: in a file that has both assignments, the extractor returns,
\* for each identifier, the characters between the quotes of the first
\* assignment of that identifier in the file, as the text-mode read gives
\* them: unchanged, except that a CR LF and a lone CR among them come out as
\* LF.  Text before that assignment that is no such assignment, and all text
\* after it, has no effect.
C7_ReturnsFirstAssignment ==
    (Extracted /\ BothAssigned)
    => /\ ReturnsFirst(SUPABASE_URL_RE, config_file.content, supabase_url)
       /\ ReturnsFirst(SUPABASE_ANON_KEY_RE, config_file.content, supabase_key)
       /\ ~supabase_url.isNone
       /\ ~supabase_key.isNone

\* a file with the key and then two URLs, the first of them stored with a
\* CR LF inside: the key and the first URL, as read, are returned
C7_Witness ==
    /\ Extracted
    /\ BothAssigned
    /\ supabase_url = Str(<< "a", LF, "b" >>)
    /\ supabase_key = Str(KeyOfLen(2))
    /\ Contains(config_file.content,
                KeyAssignment(KeyOfLen(2)) \o << LF >> \o UrlAssignment(URL_CRLF)
                    \o << LF >> \o UrlAssignment(URL_U))

----------------------------------------------------------------------------
(* C8 *)

\* lines 28-29 have run
CredentialsPrinted == pc = "build" \/ Built

\* C8: after a successful extraction stdout starts with the URL in full and
\* then the key preview: the first 50 characters of the key (the whole key
\* when it is shorter) followed by three dots.  A key of 51 characters shows
\* its first 50 and then the dots, and no line of stdout ever holds the
\* first 51 characters of a key.
C8_KeyPreviewFirstFifty ==
    CredentialsPrinted
    => LET key == supabase_key.str
           n   == IF Len(key) < 50 THEN Len(key) ELSE 50
       IN  /\ output[1] = LineText("Found Supabase URL: ", supabase_url.str)
           /\ output[2].msg = "Found Supabase Key: "
           /\ output[2].text = SubSeq(key, 1, n) \o << ".", ".", "." >>
           /\ Len(key) = 51
                => /\ Len(output[2].text) = 53
                   /\ output[2].text[50] = key[50]
                   /\ output[2].text[51] = "."
           /\ \A k \in 1..Len(output) :
                 /\ k # 2 => output[k].msg # "Found Supabase Key: "
                 /\ Len(key) > 50 => ~Contains(output[k].text, SubSeq(key, 1, 51))

\* the preview of a key of 51 characters is on stdout
C8_Witness ==
    /\ CredentialsPrinted
    /\ Len(supabase_key.str) = 51
    /\ Len(output[2].text) = 53
    /\ output[2].text[53] = "."

----------------------------------------------------------------------------
(* C10 *)

\* C10: an identifier that the file assigns only the empty value is absent
\* after extraction, and the run then ends as for a missing assignment: the
\* credential error, status 1, no client.  No run constructs a client with
\* an empty or absent URL or key.
C10_EmptyValueIsMissing ==
    /\ (Extracted /\ OnlyEmptyAssignments(SUPABASE_URL_RE, config_file.content))
         => supabase_url = None
    /\ (Extracted /\ OnlyEmptyAssignments(SUPABASE_ANON_KEY_RE, config_file.content))
         => supabase_key = None
    /\ (/\ Validated
        /\ \/ OnlyEmptyAssignments(SUPABASE_URL_RE, config_file.content)
           \/ OnlyEmptyAssignments(SUPABASE_ANON_KEY_RE, config_file.content))
         => /\ Exited
            /\ exit_code = 1
            /\ client_calls = 0
            /\ output = << Line("ERROR: Could not extract Supabase credentials from supabase-config.js") >>
    /\ (pc = "create" \/ client_calls > 0)
         => /\ ~supabase_url.isNone /\ supabase_url.str # << >>
            /\ ~supabase_key.isNone /\ supabase_key.str # << >>

\* a run on a file with an empty URL and a proper key, ended
C10_Witness ==
    /\ Validated
    /\ OnlyEmptyAssignments(SUPABASE_URL_RE, config_file.content)
    /\ HasAssignment(SUPABASE_ANON_KEY_RE, config_file.content)
    /\ supabase_url = None
    /\ Exited
    /\ exit_code = 1

====
